---- MODULE Spec2Model ----
(***************************************************************************)
(* A state-machine model of the Literotica-to-EPUB converter (src/app.js). *)
(*                                                                         *)
(* The program is single-threaded JavaScript: every action below is one    *)
(* run-to-completion segment of the code, from the event that resumes it   *)
(* (a click, a settled promise, a timer) to its next await.  The code's    *)
(* functions are operators from a state record S to the state after the    *)
(* segment; the actions apply them to the current state.                   *)
(*                                                                         *)
(* Strings are sequences: titles are sequences of characters, URLs and     *)
(* archive entry names are sequences of lexical chunks, so that trim,      *)
(* includes, startsWith, split, replace and concatenation are computed.    *)
(***************************************************************************)
EXTENDS Integers, Sequences, FiniteSets, TLC

(* ------------------------------ bounds -------------------------------- *)

\* Series links in a discovery document.
MaxChapters == 3

\* handleConvert invocations the model can hold at once.
MaxSlots == 2

\* Largest maxRetries argument of a direct fetchWithRetry call (SpecFetch).
MaxAttempts == 3

\* Abort timers of already settled requests that may be armed at one time (a
\* request rejected by the network leaves its timer armed for up to 30 s).
MaxStaleTimers == 2

(* -------------------------- program constants ------------------------- *)

CORS_PROXIES == <<"https://corsproxy.io/?", "https://api.allorigins.win/raw?url=", "https://cors-anywhere.herokuapp.com/">>

\* maxRetries = 3, the default every caller in the program uses.
DefaultMaxRetries == 3

\* text.length < 100
MinBodyLength == 100

(* ------------------------------ strings ------------------------------- *)

WS == " "

SITE == "literotica.com"

HttpChunks == {"https://", "https://www.", "http://"}

RECURSIVE trimStart(_)
trimStart(s) ==
  IF s # <<>> /\ Head(s) = WS THEN trimStart(Tail(s)) ELSE s

RECURSIVE trimEnd(_)
trimEnd(s) ==
  IF s # <<>> /\ s[Len(s)] = WS THEN trimEnd(SubSeq(s, 1, Len(s) - 1)) ELSE s

\* String.prototype.trim
trim(s) == trimEnd(trimStart(s))

\* String.prototype.includes, for a needle that is one chunk
includes(s, chunk) == \E k \in 1..Len(s) : s[k] = chunk

\* href.startsWith("http")
startsWithHttp(s) == s # <<>> /\ Head(s) \in HttpChunks

\* `${n}` for the small numbers the model uses
NumStr == <<"1", "2", "3", "4", "5", "6", "7", "8", "9">>

Upper == <<"A", "B", "C", "D", "E", "F", "G", "H", "I", "J", "K", "L", "M", "N", "O", "P", "Q", "R", "S", "T", "U", "V", "W", "X", "Y", "Z">>

Lower == <<"a", "b", "c", "d", "e", "f", "g", "h", "i", "j", "k", "l", "m", "n", "o", "p", "q", "r", "s", "t", "u", "v", "w", "x", "y", "z">>

Digits == <<"0", "1", "2", "3", "4", "5", "6", "7", "8", "9">>

Range(s) == {s[k] : k \in 1..Len(s)}

\* String.prototype.toLowerCase, one character
toLowerCase(c) ==
  IF c \in Range(Upper) THEN Lower[CHOOSE k \in 1..Len(Upper) : Upper[k] = c] ELSE c

\* s.startsWith(d), d a sequence of characters
startsWith(s, d) == Len(s) >= Len(d) /\ SubSeq(s, 1, Len(d)) = d

\* splitFirst that cuts at the first "-", whatever surrounds it.
RECURSIVE splitFirstDash(_, _)
splitFirstDash(s, d) ==
  IF s = <<>> \/ Head(s) = "-" THEN <<>> ELSE <<Head(s)>> \o splitFirstDash(Tail(s), d)

\* s.split(d)[0]: the part of s before the first occurrence of d, all of s
\* when d does not occur.
RECURSIVE splitFirst(_, _)
splitFirst(s, d) ==
  IF s = <<>> \/ startsWith(s, d) THEN <<>> ELSE <<Head(s)>> \o splitFirst(Tail(s), d)

\* s.replace(/c/g, rep): every character c replaced by the characters rep
RECURSIVE replaceAll(_, _, _)
replaceAll(s, c, rep) ==
  IF s = <<>> THEN <<>>
  ELSE (IF Head(s) = c THEN rep ELSE <<Head(s)>>) \o replaceAll(Tail(s), c, rep)

\* escapeXml with the ampersand replaced last instead of first.
escapeXmlAmpersandLast(str) ==
  replaceAll(
    replaceAll(
      replaceAll(
        replaceAll(
          replaceAll(str, "<", <<"&", "l", "t", ";">>),
          ">", <<"&", "g", "t", ";">>),
        "\"", <<"&", "q", "u", "o", "t", ";">>),
      "'", <<"&", "a", "p", "o", "s", ";">>),
    "&", <<"&", "a", "m", "p", ";">>)

escapeXml(str) ==
  replaceAll(
    replaceAll(
      replaceAll(
        replaceAll(
          replaceAll(str, "&", <<"&", "a", "m", "p", ";">>),
          "<", <<"&", "l", "t", ";">>),
        ">", <<"&", "g", "t", ";">>),
      "\"", <<"&", "q", "u", "o", "t", ";">>),
    "'", <<"&", "a", "p", "o", "s", ";">>)

\* name.replace(/[^a-z0-9]/gi, "_").toLowerCase()
sanitizeFilename(name) ==
  [k \in 1..Len(name) |->
     toLowerCase(IF name[k] \in Range(Upper) \cup Range(Lower) \cup Range(Digits)
                 THEN name[k] ELSE "_")]

UntitledStory == <<"U", "n", "t", "i", "t", "l", "e", "d", " ", "S", "t", "o", "r", "y">>

LiteroticaStory == <<"L", "i", "t", "e", "r", "o", "t", "i", "c", "a", " ", "S", "t", "o", "r", "y">>

\* `https://www.literotica.com`
Origin == <<"https://www.", SITE>>

(* ------------------------------- state -------------------------------- *)

VARIABLES
  currentProxyIndex,  \* let currentProxyIndex
  disabled,           \* convertBtn.disabled
  statusDiv,          \* statusDiv.textContent and .className
  timers,             \* armed setTimeout(() => controller.abort()) timers, by controller
  net,                \* requests the transport has not settled yet
  saved,              \* files handed to saveAs since the last click, in order
  frames              \* the handleConvert invocations and their fetchWithRetry call

vars == <<currentProxyIndex, disabled, statusDiv, timers, net, saved, frames>>

Slots == 1..MaxSlots

\* An Error: its message, and what the message embeds.
NoError ==
  [msg |-> "none", code |-> 0, attempts |-> 0, num |-> 0, total |-> 0,
   cause |-> "none", inner |-> "none"]

Err(msg, code) == [NoError EXCEPT !.msg = msg, !.code = code]

\* A response body: its length, the URL it was requested for, and what the
\* document it parses to holds: the `.ser-ttl a` links, the h1, and which of
\* the content selectors matches first (0: none).
NoBody ==
  [len |-> 0, url |-> <<>>, links |-> <<>>, h1 |-> [present |-> FALSE, text |-> <<>>], sel |-> 0]

\* A frame with no invocation in it.  hpc is the await handleConvert is at and
\* fpc the await its fetchWithRetry call is at; issued, advances, startIndex,
\* firstGood, goodBody, delays, links and requests are history the code does
\* not keep: the requests and proxy advances of the call, the proxy index it
\* started from, the first acceptable response, the inter-chapter delays of
\* the run, the series links of the document its discovery parsed, and the
\* requests of the run (kept only where audit says so: in SpecRun).
IdleFrame ==
  [hpc |-> "idle", url |-> <<>>, chapters |-> <<>>, i |-> 0, chapterContents |-> <<>>,
   zip |-> <<>>, title |-> <<>>, delays |-> 0, links |-> <<>>,
   audit |-> FALSE, requests |-> 0,
   fpc |-> "none", furl |-> <<>>, maxRetries |-> 0, attempt |-> 0, lastError |-> NoError,
   req |-> 0, issued |-> 0, advances |-> 0, startIndex |-> 0, firstGood |-> 0,
   goodBody |-> NoBody, result |-> NoBody, thrown |-> NoError]

\* The current state as one record.
Cur ==
  [currentProxyIndex |-> currentProxyIndex, disabled |-> disabled, statusDiv |-> statusDiv,
   timers |-> timers, net |-> net, saved |-> saved,
   frames |-> frames]

\* The next state is the record T.
Becomes(T) ==
  /\ currentProxyIndex' = T.currentProxyIndex
  /\ disabled' = T.disabled
  /\ statusDiv' = T.statusDiv
  /\ timers' = T.timers
  /\ net' = T.net
  /\ saved' = T.saved
  /\ frames' = T.frames

\* The current state is the record T.
Is(T) ==
  /\ currentProxyIndex = T.currentProxyIndex
  /\ disabled = T.disabled
  /\ statusDiv = T.statusDiv
  /\ timers = T.timers
  /\ net = T.net
  /\ saved = T.saved
  /\ frames = T.frames

\* The state when the script has loaded.
Base ==
  [currentProxyIndex |-> 0, disabled |-> FALSE,
   statusDiv |-> [text |-> "", a |-> 0, b |-> 0, err |-> NoError, className |-> ""],
   timers |-> {}, net |-> {}, saved |-> <<>>,
   frames |-> [r \in Slots |-> IdleFrame]]

(* ------------------------------ utilities ----------------------------- *)

updateStatus(S, text, a, b, err, type) ==
  [S EXCEPT !.statusDiv = [text |-> text, a |-> a, b |-> b, err |-> err, className |-> type]]

getProxy(S) == CORS_PROXIES[S.currentProxyIndex + 1]

\* NewController that may hand out a controller whose timer is still armed.
NewControllerReuses(S) ==
  LET used == {q.id : q \in S.net}
  IN  CHOOSE n \in 1..(Cardinality(used) + 1) : n \notin used /\ \A m \in 1..(n - 1) : m \in used

\* A controller (and its request and timer) not in use: the least free one.
NewController(S) ==
  LET used == S.timers \cup {q.id : q \in S.net}
  IN  CHOOSE n \in 1..(Cardinality(used) + 1) : n \notin used /\ \A m \in 1..(n - 1) : m \in used

(* --------------------------- fetchWithRetry --------------------------- *)

\* Where a fetchWithRetry call hands its result or its error: the code after
\* `await fetchWithRetry(url)` in the caller (defined with the callers, below).
RECURSIVE Return(_, _, _)
RECURSIVE Raise(_, _, _)

\* response.ok
Ok(status) == status \in 200..299

\* The loop body up to `await fetch(proxyUrl, {signal})`: a new controller, its
\* 30 s abort timer armed, the request handed to the transport.
Attempt(S, r) ==
  LET c == NewController(S)
      f == S.frames[r]
  IN  [S EXCEPT !.timers = @ \cup {c},
                !.net = @ \cup {[id |-> c, proxy |-> getProxy(S), url |-> f.furl,
                                 phase |-> "fetch", status |-> 0]},
                !.frames[r] = [f EXCEPT !.fpc = "awaitFetch", !.req = c, !.issued = @ + 1,
                                        !.requests = IF f.audit THEN @ + 1 ELSE @]]

\* `attempt < maxRetries` at the head of the loop, and the throw after it.
LoopHead(S, r) ==
  LET f == S.frames[r]
  IN  IF f.attempt < f.maxRetries
      THEN Attempt(S, r)
      ELSE Raise([S EXCEPT !.frames[r].fpc = "none"], r,
                 [NoError EXCEPT !.msg = "Failed to fetch after attempts",
                                 !.attempts = f.maxRetries,
                                 !.cause = f.lastError.msg,
                                 !.code = f.lastError.code])

\* async function fetchWithRetry(url, maxRetries = 3), up to its first await.
fetchWithRetry(S, r, url, maxRetries) ==
  LoopHead([S EXCEPT !.frames[r] =
              [@ EXCEPT !.furl = url, !.maxRetries = maxRetries, !.attempt = 0,
                        !.lastError = NoError, !.req = 0, !.issued = 0, !.advances = 0,
                        !.startIndex = S.currentProxyIndex,
                        !.firstGood = 0, !.goodBody = NoBody]], r)

\* Catch with `attempt < maxRetries` for `attempt < maxRetries - 1`.
CatchAdvancesAfterLast(S, r, error) ==
  LET f  == S.frames[r]
      S1 == [S EXCEPT !.frames[r] = [f EXCEPT !.lastError = error, !.req = 0]]
  IN  IF f.attempt < f.maxRetries
      THEN [S1 EXCEPT !.currentProxyIndex = (@ + 1) % Len(CORS_PROXIES),
                      !.frames[r].fpc = "backoff",
                      !.frames[r].advances = @ + 1]
      ELSE LoopHead([S1 EXCEPT !.frames[r].attempt = @ + 1], r)

\* Catch that advances the proxy and retries at once, without the sleep(2000).
CatchNoBackoff(S, r, error) ==
  LET f  == S.frames[r]
      S1 == [S EXCEPT !.frames[r] = [f EXCEPT !.lastError = error, !.req = 0]]
  IN  IF f.attempt < f.maxRetries - 1
      THEN LoopHead([S1 EXCEPT !.currentProxyIndex = (@ + 1) % Len(CORS_PROXIES),
                               !.frames[r].advances = @ + 1,
                               !.frames[r].attempt = @ + 1], r)
      ELSE LoopHead([S1 EXCEPT !.frames[r].attempt = @ + 1], r)

\* Catch that advances the proxy index without wrapping it.
CatchNoWrap(S, r, error) ==
  LET f  == S.frames[r]
      S1 == [S EXCEPT !.frames[r] = [f EXCEPT !.lastError = error, !.req = 0]]
  IN  IF f.attempt < f.maxRetries - 1
      THEN [S1 EXCEPT !.currentProxyIndex = @ + 1,
                      !.frames[r].fpc = "backoff",
                      !.frames[r].advances = @ + 1]
      ELSE LoopHead([S1 EXCEPT !.frames[r].attempt = @ + 1], r)

\* catch (error): record it, rotate the proxy and back off if attempts remain,
\* otherwise fall out of the loop.
Catch(S, r, error) ==
  LET f  == S.frames[r]
      S1 == [S EXCEPT !.frames[r] = [f EXCEPT !.lastError = error, !.req = 0]]
  IN  IF f.attempt < f.maxRetries - 1
      THEN [S1 EXCEPT !.currentProxyIndex = (@ + 1) % Len(CORS_PROXIES),
                      !.frames[r].fpc = "backoff",
                      !.frames[r].advances = @ + 1]
      ELSE LoopHead([S1 EXCEPT !.frames[r].attempt = @ + 1], r)

\* clearTimeout(timeoutId); if (!response.ok) throw; const text = await response.text()
OnResponse(S, r, q) ==
  LET S1 == [S EXCEPT !.timers = @ \ {q.id}]
  IN  IF ~Ok(q.status)
      THEN Catch([S1 EXCEPT !.net = @ \ {q}], r, Err("HTTP", q.status))
      ELSE [S1 EXCEPT !.net = (@ \ {q}) \cup {[q EXCEPT !.phase = "text"]},
                      !.frames[r].fpc = "awaitText"]

\* OnText with `text.length <= 100` for `text.length < 100`.
OnTextOffByOne(S, r, text) ==
  IF text.len = 0 \/ text.len <= MinBodyLength
  THEN Catch(S, r, Err("Response too short or empty", 0))
  ELSE Return([S EXCEPT !.frames[r].fpc = "none", !.frames[r].req = 0], r, text)

\* if (!text || text.length < 100) throw; return text
OnText(S, r, text) ==
  IF text.len = 0 \/ text.len < MinBodyLength
  THEN Catch(S, r, Err("Response too short or empty", 0))
  ELSE Return([S EXCEPT !.frames[r].fpc = "none", !.frames[r].req = 0], r, text)

\* AfterBackoff without the attempt++ of the loop.
AfterBackoffNoIncrement(S, r) == LoopHead(S, r)

\* sleep(2000) is over: attempt++ and the next turn of the loop.
AfterBackoff(S, r) ==
  LoopHead([S EXCEPT !.frames[r].attempt = @ + 1], r)

\* The fetchWithRetry activation of frame r is over: its locals are gone.
EndCall(S, r) ==
  [S EXCEPT !.frames[r] =
     [@ EXCEPT !.fpc = "none", !.furl = <<>>, !.maxRetries = 0, !.attempt = 0,
               !.lastError = NoError, !.req = 0, !.issued = 0, !.advances = 0,
               !.startIndex = 0, !.firstGood = 0, !.goodBody = NoBody]]

(* ------------------------------ createEpub ---------------------------- *)

ChapterFile(k) == <<"chapter", NumStr[k], ".xhtml">>

ChapterId(k) == <<"chapter", NumStr[k]>>

\* chapters.forEach((chapter, index) => oebps.file(`chapter${index + 1}.xhtml`, ...))
ChapterEntry(chapters, k) ==
  [name |-> <<"OEBPS/">> \o ChapterFile(k), compression |-> "default",
   data |-> [title |-> escapeXml(chapters[k].title), h1 |-> escapeXml(chapters[k].title),
             body |-> chapters[k].content]]

\* chapterManifest, after the fixed ncx item
ChapterManifest(chapters) ==
  [k \in 1..Len(chapters) |-> [id |-> ChapterId(k), href |-> ChapterFile(k)]]

\* ChapterSpine that stops one chapter short.
ChapterSpineDropsLast(chapters) == [k \in 1..(Len(chapters) - 1) |-> ChapterId(k)]

\* chapterSpine
ChapterSpine(chapters) == [k \in 1..Len(chapters) |-> ChapterId(k)]

\* navPoints
NavPoints(chapters) ==
  [k \in 1..Len(chapters) |->
     [id |-> ChapterId(k), playOrder |-> NumStr[k],
      label |-> escapeXml(chapters[k].title), src |-> ChapterFile(k)]]

\* ZipEntries with the container descriptor added before the mimetype entry.
ZipEntriesContainerFirst(title, chapters) ==
  <<[name |-> <<"META-INF/">>, compression |-> "default", data |-> "dir"],
    [name |-> <<"META-INF/", "container.xml">>, compression |-> "default",
     data |-> "OEBPS/content.opf"],
    [name |-> <<"mimetype">>, compression |-> "STORE", data |-> "application/epub+zip"],
    [name |-> <<"OEBPS/">>, compression |-> "default", data |-> "dir"]>>
  \o [k \in 1..Len(chapters) |-> ChapterEntry(chapters, k)]
  \o <<[name |-> <<"OEBPS/", "content.opf">>, compression |-> "default",
        data |-> [title |-> escapeXml(title),
                  manifest |-> <<[id |-> <<"ncx">>, href |-> <<"toc.ncx">>]>>
                               \o ChapterManifest(chapters),
                  spine |-> ChapterSpine(chapters)]],
       [name |-> <<"OEBPS/", "toc.ncx">>, compression |-> "default",
        data |-> [docTitle |-> escapeXml(title), navPoints |-> NavPoints(chapters)]]>>

\* The entries createEpub puts into the JSZip object, in the order it adds them
\* (zip.folder adds the folder's own entry).
ZipEntries(title, chapters) ==
  <<[name |-> <<"mimetype">>, compression |-> "STORE", data |-> "application/epub+zip"],
    [name |-> <<"META-INF/">>, compression |-> "default", data |-> "dir"],
    [name |-> <<"META-INF/", "container.xml">>, compression |-> "default",
     data |-> "OEBPS/content.opf"],
    [name |-> <<"OEBPS/">>, compression |-> "default", data |-> "dir"]>>
  \o [k \in 1..Len(chapters) |-> ChapterEntry(chapters, k)]
  \o <<[name |-> <<"OEBPS/", "content.opf">>, compression |-> "default",
        data |-> [title |-> escapeXml(title),
                  manifest |-> <<[id |-> <<"ncx">>, href |-> <<"toc.ncx">>]>>
                               \o ChapterManifest(chapters),
                  spine |-> ChapterSpine(chapters)]],
       [name |-> <<"OEBPS/", "toc.ncx">>, compression |-> "default",
        data |-> [docTitle |-> escapeXml(title), navPoints |-> NavPoints(chapters)]]>>

\* async function createEpub(title, chapters), up to `await zip.generateAsync`.
createEpub(S, r, title, chapters) ==
  [S EXCEPT !.frames[r].hpc = "generate",
            !.frames[r].title = title,
            !.frames[r].zip = ZipEntries(title, chapters)]

(* ----------------------------- handleConvert -------------------------- *)

\* HandlerCatch without the finally block: the button is left disabled.
HandlerCatchNoFinally(S, r, error) ==
  [updateStatus(S, "Error", 0, 0, error, "error") EXCEPT !.frames[r] = IdleFrame]

\* catch (error) { updateStatus(`Error: ${error.message}`, "error") }
\* finally { convertBtn.disabled = false }
HandlerCatch(S, r, error) ==
  [updateStatus(S, "Error", 0, 0, error, "error")
     EXCEPT !.disabled = FALSE, !.frames[r] = IdleFrame]

\* fetchChapterContent's catch: throw new Error(`Failed to fetch chapter n/t: ${error.message}`)
ChapterError(error, num, total) ==
  [error EXCEPT !.msg = "Failed to fetch chapter", !.num = num, !.total = total,
                !.inner = error.msg]

\* The chapter loop from its test `i < chapters.length` to the next await:
\* the next fetchChapterContent call, or createEpub after the last chapter.
ChapterLoop(S, r) ==
  LET f == S.frames[r]
  IN  IF f.i < Len(f.chapters)
      THEN fetchWithRetry(
             updateStatus([S EXCEPT !.frames[r].hpc = "extract"],
                          "Downloading chapter", f.i + 1, Len(f.chapters), NoError, "info"),
             r, f.chapters[f.i + 1].url, DefaultMaxRetries)
      ELSE LET storyTitle == IF splitFirst(f.chapterContents[1].title, <<" ", "-", " ">>) # <<>>
                             THEN splitFirst(f.chapterContents[1].title, <<" ", "-", " ">>)
                             ELSE LiteroticaStory
           IN  createEpub(updateStatus(S, "Creating EPUB file", 0, 0, NoError, "info"),
                          r, storyTitle, f.chapterContents)

\* handleConvert after `await fetchChapters(url)`.
AfterChapters(S, r, chapters) ==
  IF Len(chapters) = 0
  THEN HandlerCatch(S, r, Err("No chapters found", 0))
  ELSE ChapterLoop(
         updateStatus([S EXCEPT !.frames[r].chapters = chapters, !.frames[r].i = 0,
                                !.frames[r].chapterContents = <<>>],
                      "Found chapters", Len(chapters), 0, NoError, "info"), r)

\* AfterContent without the sleep(1000) between chapters.
AfterContentNoDelay(S, r, content) ==
  LET f == S.frames[r]
  IN  ChapterLoop([S EXCEPT !.frames[r].chapterContents =
                              Append(@, [title |-> f.chapters[f.i + 1].title, content |-> content]),
                            !.frames[r].i = @ + 1], r)

\* AfterContent with chapterContents.unshift for chapterContents.push.
AfterContentUnshift(S, r, content) ==
  LET f  == S.frames[r]
      S1 == [S EXCEPT !.frames[r].chapterContents =
                        <<[title |-> f.chapters[f.i + 1].title, content |-> content]>> \o @]
  IN  IF f.i < Len(f.chapters) - 1
      THEN [S1 EXCEPT !.frames[r].hpc = "delay"]
      ELSE ChapterLoop([S1 EXCEPT !.frames[r].i = @ + 1], r)

\* handleConvert after `await fetchChapterContent(...)`: push, then sleep(1000)
\* unless this was the last chapter.
AfterContent(S, r, content) ==
  LET f  == S.frames[r]
      S1 == [S EXCEPT !.frames[r].chapterContents =
                        Append(@, [title |-> f.chapters[f.i + 1].title, content |-> content])]
  IN  IF f.i < Len(f.chapters) - 1
      THEN [S1 EXCEPT !.frames[r].hpc = "delay"]
      ELSE ChapterLoop([S1 EXCEPT !.frames[r].i = @ + 1], r)

\* sleep(1000) is over: i++ and the next turn of the chapter loop.
AfterDelay(S, r) ==
  ChapterLoop([S EXCEPT !.frames[r].i = @ + 1, !.frames[r].delays = @ + 1], r)

\* createEpub after `await zip.generateAsync`: saveAs(blob, name); then the
\* success status and the finally block of handleConvert.
AfterGenerate(S, r) ==
  LET f == S.frames[r]
  IN  [updateStatus(S, "EPUB downloaded successfully", 0, 0, NoError, "success")
         EXCEPT !.saved = Append(@, [name |-> sanitizeFilename(f.title) \o <<".", "e", "p", "u", "b">>,
                                     entries |-> f.zip,
                                     refs |-> f.chapters]),
                !.disabled = FALSE,
                !.frames[r] = IdleFrame]

\* handleConvert that puts the proxy index back to 0 when a run starts.
handleConvertResetsIndex(S, r, v) ==
  LET url == trim(v)
  IN  IF url = <<>>
      THEN updateStatus(S, "Please enter a URL", 0, 0, NoError, "error")
      ELSE IF ~includes(url, SITE)
      THEN updateStatus(S, "Only Literotica URLs are supported", 0, 0, NoError, "error")
      ELSE fetchWithRetry(
             updateStatus([S EXCEPT !.disabled = TRUE, !.currentProxyIndex = 0,
                                    !.frames[r] = [IdleFrame EXCEPT !.hpc = "discover", !.url = url]],
                          "Analyzing URL", 0, 0, NoError, "info"),
             r, url, DefaultMaxRetries)

\* async function handleConvert(), for the invocation in frame r and the
\* text v of the input field, up to its first await.
handleConvert(S, r, v) ==
  LET url == trim(v)
  IN  IF url = <<>>
      THEN updateStatus(S, "Please enter a URL", 0, 0, NoError, "error")
      ELSE IF ~includes(url, SITE)
      THEN updateStatus(S, "Only Literotica URLs are supported", 0, 0, NoError, "error")
      ELSE fetchWithRetry(
             updateStatus([S EXCEPT !.disabled = TRUE,
                                    !.frames[r] = [IdleFrame EXCEPT !.hpc = "discover", !.url = url]],
                          "Analyzing URL", 0, 0, NoError, "info"),
             r, url, DefaultMaxRetries)

(* ------------------- fetchChapters, fetchChapterContent --------------- *)

\* link.getAttribute("href") is null for some series link: href.startsWith
\* throws a TypeError.
HrefMissing(html) == \E k \in 1..Len(html.links) : ~html.links[k].hasHref

\* fetchChapters after `await fetchWithRetry(url)`: the series links, or the
\* page itself as the only chapter.
fetchChapters(url, html) ==
  IF Len(html.links) > 0
  THEN [k \in 1..Len(html.links) |->
          [title |-> trim(html.links[k].text),
           url |-> IF startsWithHttp(html.links[k].href)
                   THEN html.links[k].href
                   ELSE Origin \o html.links[k].href]]
  ELSE <<[title |-> IF html.h1.present THEN trim(html.h1.text) ELSE UntitledStory,
          url |-> url]>>

\* contentDiv.innerHTML of every chapter document of the model
InnerHTML == <<"p", "script", "p", "style", "iframe", "p">>

\* The three content.replace(...) calls: script, style and iframe elements go.
Strip(content) == SelectSeq(content, LAMBDA n : n \notin {"script", "style", "iframe"})

\* Raise with a fetchChapterContent that swallows the error and returns an
\* empty fragment.
RaiseSwallowsChapterError(S, r, error) ==
  LET f == S.frames[r]
  IN  CASE f.hpc = "discover" -> HandlerCatch(S, r, error)
        [] f.hpc = "extract" -> AfterContent(EndCall(S, r), r, [src |-> <<>>, html |-> <<>>])
        [] f.hpc = "direct" ->
             [S EXCEPT !.frames[r].hpc = "threw", !.frames[r].thrown = error]

\* A fetchWithRetry call returns text: the rest of fetchChapters and of
\* handleConvert, or of fetchChapterContent and of handleConvert, to the next await.
Return(S, r, text) ==
  LET f == S.frames[r]
  IN  CASE f.hpc = "discover" ->
             IF HrefMissing(text)
             THEN HandlerCatch(S, r, Err("TypeError", 0))
             ELSE AfterChapters(EndCall(S, r), r, fetchChapters(f.url, text))
        [] f.hpc = "extract" ->
             IF text.sel = 0
             THEN HandlerCatch(S, r, ChapterError(Err("Could not find story content for chapter", 0),
                                                  f.i + 1, Len(f.chapters)))
             ELSE AfterContent(EndCall(S, r), r, [src |-> text.url, html |-> Strip(InnerHTML)])
        [] f.hpc = "direct" ->
             [S EXCEPT !.frames[r].hpc = "returned", !.frames[r].result = text]

\* A fetchWithRetry call throws: fetchChapters lets the error through to
\* handleConvert's catch, fetchChapterContent wraps it first.
Raise(S, r, error) ==
  LET f == S.frames[r]
  IN  CASE f.hpc = "discover" -> HandlerCatch(S, r, error)
        [] f.hpc = "extract" -> HandlerCatch(S, r, ChapterError(error, f.i + 1, Len(f.chapters)))
        [] f.hpc = "direct" ->
             [S EXCEPT !.frames[r].hpc = "threw", !.frames[r].thrown = error]

(* ------------------------------ events -------------------------------- *)

HttpStatuses == {200, 500}

BodyLens == {0, 99, 100, 101}

\* The text and target of the k-th series link of a discovery document: the
\* first link is root-relative, the second absolute, the third relative to the
\* document's path, the fourth protocol-relative, and so on again.
LinkText(k) == <<" ", "S", " ", "-", " ", NumStr[k]>>

LinkHref(k) ==
  CASE k % 4 = 1 -> <<"/s/", NumStr[k]>>
    [] k % 4 = 2 -> <<"https://www.", SITE, "/s/", NumStr[k]>>
    [] k % 4 = 3 -> <<"s/", NumStr[k]>>
    [] k % 4 = 0 -> <<"//www.", SITE, "/s/", NumStr[k]>>

Links(n) == [k \in 1..n |-> [text |-> LinkText(k), href |-> LinkHref(k), hasHref |-> TRUE]]

\* A series link with no href attribute: <a class="..." name="...">.
AnchorOnly == <<[text |-> LinkText(1), href |-> <<>>, hasHref |-> FALSE]>>

\* The h1 of a story page: none, one with text, one with nothing but a blank.
H1s ==
  {[present |-> FALSE, text |-> <<>>],
   [present |-> TRUE, text |-> <<"M", "y", " ", "-", " ", "1", " ">>],
   [present |-> TRUE, text |-> <<WS>>]}

\* The documents a body of acceptable length parses to: a series index with
\* n links (and no story content), one whose only link has no href, or a
\* story page, with or without an h1, on which the first, second, third or no
\* content selector matches.
Docs ==
  {[links |-> Links(n), h1 |-> [present |-> FALSE, text |-> <<>>], sel |-> 0] : n \in 1..MaxChapters}
  \cup {[links |-> AnchorOnly, h1 |-> [present |-> FALSE, text |-> <<>>], sel |-> 0]}
  \cup {[links |-> <<>>, h1 |-> h, sel |-> s] : h \in H1s, s \in 0..3}

\* What the body of a response to a request for url can be.
Bodies(url) ==
  {[len |-> l, url |-> url, links |-> d.links, h1 |-> d.h1, sel |-> d.sel] :
     l \in {x \in BodyLens : x >= MinBodyLength}, d \in Docs}
  \cup {[NoBody EXCEPT !.len = l, !.url = url] : l \in {x \in BodyLens : x < MinBodyLength}}

\* The armed abort timers whose request is already settled.
StaleTimers == {t \in timers : \A q \in net : q.id # t}

\* The frame suspended on request q in the given phase.
Awaiting(q, fpc) == {r \in Slots : frames[r].fpc = fpc /\ frames[r].req = q.id}

\* The transport delivers response headers.
FetchResolves ==
  \E q \in net, status \in HttpStatuses :
    /\ q.phase = "fetch"
    /\ \E r \in Awaiting(q, "awaitFetch") :
         LET q2 == [q EXCEPT !.phase = "response", !.status = status]
         IN  Becomes(OnResponse([Cur EXCEPT !.net = (@ \ {q}) \cup {q2}], r, q2))

\* The transport fails the request (fetch rejects with a TypeError); the abort
\* timer is not cleared on this path.
FetchRejects ==
  \E q \in net :
    /\ q.phase = "fetch"
    /\ Cardinality(StaleTimers) < MaxStaleTimers
    /\ \E r \in Awaiting(q, "awaitFetch") :
         Becomes(Catch([Cur EXCEPT !.net = @ \ {q}], r,
                       Err("Failed to fetch", 0)))

\* A 30 s timer fires: controller.abort().  A request of that controller still
\* with the transport is aborted and its await rejects with an AbortError.
TimerFires ==
  \E t \in timers :
    LET S1   == [Cur EXCEPT !.timers = @ \ {t}]
        hit  == {q \in net : q.id = t}
    IN  IF hit = {}
        THEN Becomes(S1)
        ELSE \E q \in hit :
               \E r \in Awaiting(q, IF q.phase = "fetch" THEN "awaitFetch" ELSE "awaitText") :
                 Becomes(Catch([S1 EXCEPT !.net = @ \ {q}], r, Err("AbortError", 0)))

\* The body arrives.  firstGood/goodBody note the first attempt of the call
\* whose response had a success status and a body of 100 characters or more,
\* links the series links of the body a discovery gets.
TextResolves ==
  \E q \in net :
    /\ q.phase = "text"
    /\ \E r \in Awaiting(q, "awaitText"), text \in Bodies(q.url) :
         LET f    == frames[r]
             good == q.status \in 200..299 /\ text.len >= 100 /\ f.firstGood = 0
             S1   == [Cur EXCEPT !.net = @ \ {q},
                                 !.frames[r].firstGood = IF good THEN f.issued ELSE @,
                                 !.frames[r].goodBody = IF good THEN text ELSE @,
                                 !.frames[r].links = IF f.hpc = "discover" THEN text.links ELSE @]
         IN  Becomes(OnText(S1, r, text))

\* The body read fails (response.text() rejects).
TextRejects ==
  \E q \in net :
    /\ q.phase = "text"
    /\ \E r \in Awaiting(q, "awaitText") :
         Becomes(Catch([Cur EXCEPT !.net = @ \ {q}], r,
                       Err("body read failed", 0)))

\* The 2 s backoff timer fires.
BackoffElapses ==
  \E r \in Slots :
    /\ frames[r].fpc = "backoff"
    /\ Becomes(AfterBackoff(Cur, r))

\* The 1 s delay between chapters is over.
DelayElapses ==
  \E r \in Slots :
    /\ frames[r].hpc = "delay"
    /\ Becomes(AfterDelay(Cur, r))

\* zip.generateAsync resolves with the blob.
GenerateResolves ==
  \E r \in Slots :
    /\ frames[r].hpc = "generate"
    /\ Becomes(AfterGenerate(Cur, r))

\* zip.generateAsync rejects.
GenerateRejects ==
  \E r \in Slots :
    /\ frames[r].hpc = "generate"
    /\ Becomes(HandlerCatch(Cur, r, Err("generateAsync failed", 0)))

\* What the user may have typed into urlInput: nothing, blanks, another site,
\* a story URL of the site (with blanks around it), and a URL of another site
\* that carries the site's name in its query.
Inputs ==
  {<<>>,
   <<WS, WS>>,
   <<"https://", "example.org", "/s/a-story">>,
   <<WS, "https://www.", SITE, "/s/a-story", WS>>,
   <<"https://", "example.org", "/?ref=", SITE>>}

\* A click on convertBtn; the browser delivers none while the button is
\* disabled.  The invocation takes the least frame not in use, and saved
\* starts again from empty: it shows what this click gets delivered.
Click ==
  \E v \in Inputs :
    /\ ~disabled
    /\ \E r \in Slots :
         /\ frames[r].hpc = "idle"
         /\ \A o \in Slots : o < r => frames[o].hpc # "idle"
         /\ Becomes(handleConvert([Cur EXCEPT !.saved = <<>>], r, v))

Init == Is(Base)

Next ==
  \/ Click
  \/ FetchResolves
  \/ FetchRejects
  \/ TimerFires
  \/ TextResolves
  \/ TextRejects
  \/ BackoffElapses
  \/ DelayElapses
  \/ GenerateResolves
  \/ GenerateRejects

Spec == Init /\ [][Next]_vars

(* ------------------------- one conversion run ------------------------- *)

TargetUrl == <<"https://www.", SITE, "/s/a-story">>

\* The first run after the script has loaded, on a story URL of the site,
\* suspended at its first await, its first request counted.
InitRun ==
  LET S == handleConvert(Base, 1, <<WS>> \o TargetUrl \o <<WS>>)
  IN  Is([S EXCEPT !.frames[1].audit = TRUE, !.frames[1].requests = 1])

NextRun ==
  \/ FetchResolves
  \/ FetchRejects
  \/ TimerFires
  \/ TextResolves
  \/ TextRejects
  \/ BackoffElapses
  \/ DelayElapses
  \/ GenerateResolves
  \/ GenerateRejects

\* No await lasts for ever: while an event is due (a response or its failure,
\* a body, an armed timer, the settling of generateAsync), one is delivered.
Fairness == WF_vars(NextRun)

SpecRun == InitRun /\ [][NextRun]_vars /\ Fairness

(* ------------------- fetchWithRetry called directly ------------------- *)

\* One call fetchWithRetry(url, maxRetries), for every maxRetries >= 1 and from
\* every proxy position, suspended at its first await.
InitFetch ==
  \E p \in 0..(Len(CORS_PROXIES) - 1), m \in 1..MaxAttempts :
    Is(fetchWithRetry([Base EXCEPT !.currentProxyIndex = p, !.frames[1].hpc = "direct"],
                      1, TargetUrl, m))

NextFetch ==
  \/ FetchResolves
  \/ FetchRejects
  \/ TimerFires
  \/ TextResolves
  \/ TextRejects
  \/ BackoffElapses

SpecFetch == InitFetch /\ [][NextFetch]_vars

(* ---------------------- createEpub on any chapter list ---------------- *)

\* Longest chapter list handed to createEpub in SpecEpub.
MaxEpubChapters == 3

EpubTitles == {<<"A">>, <<"B", " ", "-", " ", "2">>, <<>>, <<"&", "<">>}

\* handleConvert has extracted the last of n chapters, whatever their titles,
\* and has called createEpub.
InitEpub ==
  \E n \in 1..MaxEpubChapters :
    \E ts \in [1..n -> EpubTitles] :
      LET refs == [k \in 1..n |-> [title |-> ts[k], url |-> Origin \o <<"/s/", NumStr[k]>>]]
          done == [k \in 1..n |-> [title |-> ts[k],
                                    content |-> [src |-> refs[k].url, html |-> Strip(InnerHTML)]]]
      IN  Is(ChapterLoop([Base EXCEPT !.disabled = TRUE,
                                      !.frames[1] = [IdleFrame EXCEPT !.hpc = "extract",
                                                                      !.url = refs[1].url,
                                                                      !.chapters = refs,
                                                                      !.i = n,
                                                                      !.chapterContents = done,
                                                                      !.delays = n - 1]],
                         1))

NextEpub ==
  \/ GenerateResolves
  \/ GenerateRejects

SpecEpub == InitEpub /\ [][NextEpub]_vars

(* ------------------- createEpub on any first title -------------------- *)

\* Longest title drawn character by character.
MaxTitleLen == 3

\* The five characters escapeXml replaces, the two of the " - " delimiter, and
\* a letter.
TitleChars == {"&", "<", ">", "\"", "'", " ", "-", "A"}

FooBar == <<"F", "o", "o", " ", "&", " ", "\"", "B", "a", "r", "\"">>

MyStoryPart1 ==
  <<"M", "y", " ", "S", "t", "o", "r", "y", " ", "-", " ", "P", "a", "r", "t", " ", "1">>

\* Titles a chapter can have: every string of up to MaxTitleLen characters, and
\* longer ones that hold an entity, or text around one or two delimiters.
Titles ==
  UNION {[1..n -> TitleChars] : n \in 0..MaxTitleLen}
  \cup {FooBar, MyStoryPart1,
        <<"&", "a", "m", "p", ";">>,
        <<"&", "l", "t", ";", "A", "&", "&">>,
        <<"A", " ", "-", " ", "b", " ", "-", " ", "c">>,
        <<" ", "-", " ", "A", "b">>,
        <<"A", "b", " ", "-", "c">>,
        <<"A", "-", "b", " ", "-", " ">>}

\* The title every chapter after the first has in SpecTitle.
LaterTitle == <<"Z", "9">>

\* handleConvert has extracted the last of one or two chapters, the first of
\* them with any of the titles, and has called createEpub.
InitTitle ==
  \E t \in Titles, n \in 1..2 :
    LET refs == [k \in 1..n |-> [title |-> IF k = 1 THEN t ELSE LaterTitle,
                                 url |-> Origin \o <<"/s/", NumStr[k]>>]]
        done == [k \in 1..n |-> [title |-> refs[k].title,
                                 content |-> [src |-> refs[k].url, html |-> Strip(InnerHTML)]]]
    IN  Is(ChapterLoop([Base EXCEPT !.disabled = TRUE,
                                    !.frames[1] = [IdleFrame EXCEPT !.hpc = "extract",
                                                                    !.url = refs[1].url,
                                                                    !.chapters = refs,
                                                                    !.i = n,
                                                                    !.chapterContents = done,
                                                                    !.delays = n - 1]],
                       1))

SpecTitle == InitTitle /\ [][NextEpub]_vars

(* ------------------------------ properties ---------------------------- *)

\* C1: a fetchWithRetry call whose every attempt fails issues exactly
\* maxRetries requests, advances the proxy index after every failed attempt
\* but the last (maxRetries - 1 advances, each one step round the proxy list),
\* and throws an error naming maxRetries as the attempt count.
C1_ExhaustsMaxAttempts ==
  \A r \in Slots :
    LET f == frames[r]
    IN  /\ f.hpc \in {"direct", "threw"} =>
             currentProxyIndex = (f.startIndex + f.advances) % Len(CORS_PROXIES)
        /\ (f.hpc = "direct" /\ f.fpc \in {"awaitFetch", "awaitText"}) =>
             (f.issued <= f.maxRetries /\ f.advances = f.issued - 1)
        /\ (f.hpc = "direct" /\ f.fpc = "backoff") =>
             (f.issued < f.maxRetries /\ f.advances = f.issued)
        /\ f.hpc = "threw" =>
             /\ f.issued = f.maxRetries
             /\ f.advances = f.maxRetries - 1
             /\ f.thrown.msg = "Failed to fetch after attempts"
             /\ f.thrown.attempts = f.maxRetries

\* A call with maxRetries = 3 that started on the last proxy has thrown.
C1_Witness ==
  \E r \in Slots :
    /\ frames[r].hpc = "threw"
    /\ frames[r].maxRetries = 3
    /\ frames[r].startIndex = Len(CORS_PROXIES) - 1
    /\ currentProxyIndex = 1

\* C2: fetchWithRetry returns a body exactly when it is the body of the
\* earliest attempt (among the first maxRetries) whose response had a success
\* status and at least MinBodyLength characters; the call returns on that very
\* attempt, so earlier attempts (short bodies on a success status included)
\* were failures and no attempt follows it.
C2_ReturnsEarliestGoodBody ==
  \A r \in Slots :
    LET f == frames[r]
    IN  /\ f.hpc = "returned" =>
             /\ f.firstGood \in 1..f.maxRetries
             /\ f.firstGood = f.issued
             /\ f.result = f.goodBody
             /\ f.result.len >= 100
        /\ (f.hpc \in {"direct", "threw"}) => f.firstGood = 0

\* A call has returned on its third attempt, after an attempt that had a
\* success status and a short body.
C2_Witness ==
  \E r \in Slots :
    /\ frames[r].hpc = "returned"
    /\ frames[r].issued = 3
    /\ frames[r].lastError.msg = "Response too short or empty"
    /\ frames[r].result.len = 100

\* C3: every request still with the transport, waiting for its response or
\* for its body, has its 30 s abort timer armed.
C3_EveryPendingRequestHasTimer == \A q \in net : q.id \in timers

\* The handleConvert invocations in flight.
InFlight == {r \in Slots : frames[r].hpc # "idle"}

\* C4: at most one conversion run is in flight, the button is disabled
\* whenever a run is suspended at an await, and it is enabled again whenever
\* no run is in flight, however the last run ended.
C4_OneRunAtATime ==
  /\ Cardinality(InFlight) <= 1
  /\ disabled <=> InFlight # {}

\* A run has ended by an assembly failure and the button is enabled again.
C4_Witness ==
  /\ InFlight = {}
  /\ ~disabled
  /\ statusDiv.className = "error"
  /\ statusDiv.err.msg = "generateAsync failed"

\* The chapter documents of an archive, in archive order.
ChapterDocs(entries) == SelectSeq(entries, LAMBDA e : Len(e.name) = 4 /\ e.name[2] = "chapter")

\* Every chapter reference has its content, retrieved from its URL.
AllExtracted(refs, contents) ==
  /\ Len(contents) = Len(refs)
  /\ \A k \in 1..Len(refs) : contents[k].content.src = refs[k].url

C5_State ==
  /\ \A r \in Slots :
       frames[r].hpc = "generate" => AllExtracted(frames[r].chapters, frames[r].chapterContents)
  /\ \A n \in 1..Len(saved) :
       LET docs == ChapterDocs(saved[n].entries)
       IN  /\ Len(docs) = Len(saved[n].refs)
           /\ \A k \in 1..Len(docs) : docs[k].data.body.src = saved[n].refs[k].url

C5_Step ==
  /\ \A r \in Slots :
       /\ (frames[r].hpc \in {"discover", "extract", "delay"} /\ frames'[r].hpc = "idle") =>
            /\ saved' = saved
            /\ net' = {}
            /\ statusDiv'.className = "error"
       /\ (frames[r].hpc = "generate" /\ frames'[r].hpc = "idle") =>
            \/ saved' = saved /\ statusDiv'.className = "error"
            \/ Len(saved') = Len(saved) + 1 /\ statusDiv'.className = "success"
  /\ Len(saved') > Len(saved) =>
       \E r \in Slots : frames[r].hpc = "generate" /\ frames'[r].hpc = "idle"

\* C5: a run whose discovery or whose extraction of a chapter fails ends there:
\* no further request, no createEpub call, no file, an error status; a file is
\* delivered only by a run that extracted every discovered chapter.
C5_FailureAbortsRun == []C5_State /\ [][C5_Step]_vars

\* A run over two chapters has failed on its second chapter: nothing saved.
C5_Witness ==
  /\ InFlight = {}
  /\ saved = <<>>
  /\ statusDiv.className = "error"
  /\ statusDiv.err.num = 2
  /\ statusDiv.err.total = 2

\* The host of a trimmed URL: its first chunk after the scheme.
Host(url) ==
  IF url = <<>> THEN ""
  ELSE IF startsWithHttp(url) THEN (IF Len(url) >= 2 THEN url[2] ELSE "")
  ELSE Head(url)

\* C6: no run is started (the button disabled, requests issued) on an input
\* that is empty or whose domain is not the target site.
C6_NoRunOnForeignInput ==
  \A r \in InFlight : frames[r].url # <<>> /\ Host(frames[r].url) = SITE

\* C7: chapters are requested one at a time in discovery order: the request
\* for chapter i+1 is out only when i chapters are extracted and i delays have
\* elapsed, no request is out during a delay, the last chapter is followed by
\* no delay, and never are two requests with the transport.
C7_SequentialChapters ==
  /\ Cardinality(net) <= 1
  /\ \A q \in net : \E r \in InFlight : frames[r].req = q.id /\ frames[r].furl = q.url
  /\ \A r \in Slots :
       LET f == frames[r]
       IN  /\ f.hpc = "extract" =>
                /\ f.i < Len(f.chapters)
                /\ Len(f.chapterContents) = f.i
                /\ f.delays = f.i
                /\ f.furl = f.chapters[f.i + 1].url
           /\ f.hpc = "delay" =>
                /\ net = {}
                /\ Len(f.chapterContents) = f.i + 1
                /\ f.i + 1 < Len(f.chapters)
                /\ f.delays = f.i
           /\ f.hpc = "generate" =>
                /\ net = {}
                /\ f.delays = Len(f.chapters) - 1

\* The second of two chapters is being requested, after one delay.
C7_Witness ==
  \E r \in Slots :
    /\ frames[r].hpc = "extract"
    /\ frames[r].i = 1
    /\ frames[r].delays = 1
    /\ \E q \in net : q.url = frames[r].chapters[2].url

\* C8: in every delivered archive the k-th chapter document is chapterk.xhtml,
\* the k-th spine entry refers to it, and it carries the (escaped) title of
\* the k-th discovered reference and the body retrieved from that reference's URL.
C8_OrderPreserved ==
  \A n \in 1..Len(saved) :
    LET refs  == saved[n].refs
        docs  == ChapterDocs(saved[n].entries)
        opf   == SelectSeq(saved[n].entries, LAMBDA e : e.name = <<"OEBPS/", "content.opf">>)
    IN  /\ Len(docs) = Len(refs)
        /\ Len(opf) = 1
        /\ Len(opf[1].data.spine) = Len(refs)
        /\ \A k \in 1..Len(refs) :
             /\ docs[k].name = <<"OEBPS/", "chapter", NumStr[k], ".xhtml">>
             /\ opf[1].data.spine[k] = <<"chapter", NumStr[k]>>
             /\ docs[k].data.h1 = escapeXml(refs[k].title)
             /\ docs[k].data.title = escapeXml(refs[k].title)
             /\ docs[k].data.body.src = refs[k].url

\* An archive of two chapters with different titles and URLs has been delivered.
C8_Witness ==
  \E n \in 1..Len(saved) :
    /\ Len(saved[n].refs) = 2
    /\ saved[n].refs[1].title # saved[n].refs[2].title
    /\ saved[n].refs[1].url # saved[n].refs[2].url

\* The archives createEpub has built, each with the length of its chapter list.
Archives ==
  {[entries |-> frames[r].zip, n |-> Len(frames[r].chapterContents)] :
     r \in {x \in Slots : frames[x].hpc = "generate"}}
  \cup {[entries |-> saved[k].entries, n |-> Len(saved[k].refs)] : k \in 1..Len(saved)}

\* The one entry of that name.
Entry(entries, name) == SelectSeq(entries, LAMBDA e : e.name = name)

\* C9: for a chapter list of length N >= 1 the archive holds exactly the chapter
\* documents chapter1.xhtml..chapterN.xhtml, N chapter manifest items after
\* the ncx item, N spine references and N navigation points with play orders
\* 1..N, the k-th of each referring to chapterk.xhtml.
C9_ManifestSpineNavAgree ==
  \A z \in Archives :
    LET docs == ChapterDocs(z.entries)
        opf  == Entry(z.entries, <<"OEBPS/", "content.opf">>)
        ncx  == Entry(z.entries, <<"OEBPS/", "toc.ncx">>)
    IN  /\ z.n >= 1
        /\ Len(docs) = z.n
        /\ Len(opf) = 1
        /\ Len(ncx) = 1
        /\ Len(opf[1].data.manifest) = z.n + 1
        /\ opf[1].data.manifest[1].href = <<"toc.ncx">>
        /\ Len(opf[1].data.spine) = z.n
        /\ Len(ncx[1].data.navPoints) = z.n
        /\ \A k \in 1..z.n :
             /\ docs[k].name = <<"OEBPS/", "chapter", NumStr[k], ".xhtml">>
             /\ opf[1].data.manifest[k + 1].id = <<"chapter", NumStr[k]>>
             /\ opf[1].data.manifest[k + 1].href = <<"chapter", NumStr[k], ".xhtml">>
             /\ opf[1].data.spine[k] = <<"chapter", NumStr[k]>>
             /\ ncx[1].data.navPoints[k].playOrder = NumStr[k]
             /\ ncx[1].data.navPoints[k].id = <<"chapter", NumStr[k]>>
             /\ ncx[1].data.navPoints[k].src = <<"chapter", NumStr[k], ".xhtml">>

\* An archive of three chapters has been delivered.
C9_Witness == \E k \in 1..Len(saved) : Len(ChapterDocs(saved[k].entries)) = 3

\* C10: in every archive the first entry is named mimetype and is stored
\* without compression, and the container descriptor, the chapter documents,
\* the package manifest and the navigation map all come after it.
C10_MimetypeFirst ==
  \A z \in Archives :
    /\ Len(z.entries) >= 1
    /\ z.entries[1].name = <<"mimetype">>
    /\ z.entries[1].compression = "STORE"
    /\ z.entries[1].data = "application/epub+zip"
    /\ \A name \in {<<"META-INF/", "container.xml">>, <<"OEBPS/", "content.opf">>,
                    <<"OEBPS/", "toc.ncx">>} :
         \E k \in 2..Len(z.entries) : z.entries[k].name = name
    /\ \A k \in 1..Len(z.entries) :
         (Len(z.entries[k].name) = 4 /\ z.entries[k].name[2] = "chapter") => k > 1

\* An archive of three chapters, nine entries in all, is being generated or is delivered.
C10_Witness ==
  \E z \in Archives : z.n = 3 /\ Len(z.entries) = 9

\* C11: every chapter of a delivered archive has a non-empty title: its
\* document's title and heading and its navigation label are never the empty
\* string, a placeholder standing in for an empty discovered title.
C11_NoEmptyChapterTitle ==
  \A n \in 1..Len(saved) :
    LET docs == ChapterDocs(saved[n].entries)
        ncx  == Entry(saved[n].entries, <<"OEBPS/", "toc.ncx">>)
    IN  /\ \A k \in 1..Len(docs) : docs[k].data.h1 # <<>> /\ docs[k].data.title # <<>>
        /\ \A e \in 1..Len(ncx) :
             \A k \in 1..Len(ncx[e].data.navPoints) : ncx[e].data.navPoints[k].label # <<>>

\* The entity of a reserved character, the character itself otherwise.
Entity(c) ==
  CASE c = "&" -> <<"&", "a", "m", "p", ";">>
    [] c = "<" -> <<"&", "l", "t", ";">>
    [] c = ">" -> <<"&", "g", "t", ";">>
    [] c = "\"" -> <<"&", "q", "u", "o", "t", ";">>
    [] c = "'" -> <<"&", "a", "p", "o", "s", ";">>
    [] OTHER -> <<c>>

Reserved == {"&", "<", ">", "\"", "'"}

\* One pass over s, each character replaced by its entity.
RECURSIVE Encoded(_)
Encoded(s) == IF s = <<>> THEN <<>> ELSE Entity(Head(s)) \o Encoded(Tail(s))

\* One pass over s, each entity replaced by its character.
RECURSIVE Decoded(_)
Decoded(s) ==
  IF s = <<>> THEN <<>>
  ELSE LET hit == {c \in Reserved : startsWith(s, Entity(c))}
       IN  IF hit = {} THEN <<Head(s)>> \o Decoded(Tail(s))
           ELSE LET c == CHOOSE x \in hit : TRUE
                IN  <<c>> \o Decoded(SubSeq(s, Len(Entity(c)) + 1, Len(s)))

\* out is the title t with each reserved character replaced exactly once.
EscapedOnce(t, out) ==
  /\ out = Encoded(t)
  /\ \A k \in 1..Len(out) :
       /\ out[k] \notin {"<", ">", "\"", "'"}
       /\ out[k] = "&" => \E c \in Reserved : startsWith(SubSeq(out, k, Len(out)), Entity(c))
  /\ Decoded(out) = t
  /\ t = FooBar =>
       out = <<"F", "o", "o", " ", "&", "a", "m", "p", ";", " ",
               "&", "q", "u", "o", "t", ";", "B", "a", "r", "&", "q", "u", "o", "t", ";">>

\* The archives built, each with the chapter titles it was built from.
TitledArchives ==
  {[entries |-> frames[r].zip, titles |-> [k \in 1..Len(frames[r].chapterContents) |->
                                             frames[r].chapterContents[k].title]] :
     r \in {x \in Slots : frames[x].hpc = "generate"}}
  \cup {[entries |-> saved[n].entries, titles |-> [k \in 1..Len(saved[n].refs) |->
                                                     saved[n].refs[k].title]] :
          n \in 1..Len(saved)}

\* C12: in every archive the title, the heading and the navigation label of a
\* chapter are the chapter's title with each of & < > " ' replaced by its entity
\* exactly once: no raw < > " ' is left, every & starts one of the five
\* entities, decoding gives the title back, and Foo & "Bar" reads
\* Foo &amp; &quot;Bar&quot; in the chapter document and in the label.
C12_TitlesEscapedOnce ==
  \A z \in TitledArchives :
    LET docs == ChapterDocs(z.entries)
        ncx  == Entry(z.entries, <<"OEBPS/", "toc.ncx">>)
    IN  /\ Len(docs) = Len(z.titles)
        /\ Len(ncx) = 1
        /\ Len(ncx[1].data.navPoints) = Len(z.titles)
        /\ \A k \in 1..Len(z.titles) :
             /\ EscapedOnce(z.titles[k], docs[k].data.title)
             /\ EscapedOnce(z.titles[k], docs[k].data.h1)
             /\ EscapedOnce(z.titles[k], ncx[1].data.navPoints[k].label)

\* An archive whose first chapter is titled Foo & "Bar" has been delivered.
C12_Witness ==
  \E n \in 1..Len(saved) :
    /\ saved[n].refs[1].title = FooBar
    /\ ChapterDocs(saved[n].entries)[1].data.h1 = escapeXml(FooBar)

\* The delimiter " - " stands at position k of s.
DelimiterAt(s, k) == k + 2 <= Len(s) /\ s[k] = " " /\ s[k + 1] = "-" /\ s[k + 2] = " "

\* The part of s before its first delimiter, all of s when it has none.
BeforeDelimiter(s) ==
  LET at == {k \in 1..Len(s) : DelimiterAt(s, k)}
  IN  IF at = {} THEN s
      ELSE SubSeq(s, 1, (CHOOSE k \in at : \A j \in at : k <= j) - 1)

\* The project title a first chapter title gives.
ProjectTitle(first) ==
  IF BeforeDelimiter(first) = <<>>
  THEN <<"L", "i", "t", "e", "r", "o", "t", "i", "c", "a", " ", "S", "t", "o", "r", "y">>
  ELSE BeforeDelimiter(first)

\* The filename a project title gives: digits and small letters kept, capital
\* letters made small, every other character an underscore.
FileName(title) ==
  [k \in 1..Len(title) |->
     IF title[k] \in Range(Lower) \cup Range(Digits) THEN title[k]
     ELSE IF \E j \in 1..Len(Upper) : Upper[j] = title[k]
          THEN Lower[CHOOSE j \in 1..Len(Upper) : Upper[j] = title[k]]
          ELSE "_"]
  \o <<".", "e", "p", "u", "b">>

\* C13: the project title handed to createEpub is the part of the first
\* chapter's title before the first " - ", or Literotica Story when that part
\* is empty; the archive's title is that project title and the delivered file
\* is named after it, lower-cased, every non-alphanumeric character replaced,
\* with .epub added; My Story - Part 1 gives My Story and my_story.epub.
C13_ProjectTitleAndFilename ==
  /\ \A r \in Slots :
       frames[r].hpc = "generate" =>
         /\ frames[r].title = ProjectTitle(frames[r].chapterContents[1].title)
         /\ frames[r].chapterContents[1].title = MyStoryPart1 =>
              frames[r].title = <<"M", "y", " ", "S", "t", "o", "r", "y">>
  /\ \A n \in 1..Len(saved) :
       LET first == saved[n].refs[1].title
           opf   == Entry(saved[n].entries, <<"OEBPS/", "content.opf">>)
       IN  /\ saved[n].name = FileName(ProjectTitle(first))
           /\ Len(opf) = 1
           /\ opf[1].data.title = Encoded(ProjectTitle(first))
           /\ first = MyStoryPart1 =>
                saved[n].name = <<"m", "y", "_", "s", "t", "o", "r", "y", ".", "e", "p", "u", "b">>

\* The single chapter My Story - Part 1 has been delivered as my_story.epub.
C13_Witness ==
  \E n \in 1..Len(saved) :
    /\ Len(saved[n].refs) = 1
    /\ saved[n].refs[1].title = MyStoryPart1
    /\ saved[n].name = sanitizeFilename(<<"M", "y", " ", "S", "t", "o", "r", "y">>)
                          \o <<".", "e", "p", "u", "b">>

\* A link target resolved against the origin https://www.literotica.com: an
\* absolute target is itself, a protocol-relative one takes the origin's
\* scheme, a root-relative one follows the origin, and one relative to a path
\* follows the origin's root path.
Resolved(href) ==
  CASE startsWithHttp(href) -> href
    [] href # <<>> /\ Head(href) = "//www." -> <<"https:">> \o href
    [] href # <<>> /\ Head(href) = "/s/" -> <<"https://www.", SITE>> \o href
    [] OTHER -> <<"https://www.", SITE, "/">> \o href

\* The runs whose discovery parsed a document with series links.
SeriesRuns == {r \in Slots : frames[r].hpc \in {"extract", "delay", "generate"} /\ frames[r].links # <<>>}

\* C14: from a document with N >= 1 series links fetchChapters returns N
\* references in document order, the k-th with the k-th link's trimmed text
\* and with its target as an absolute URL: unchanged when it is absolute,
\* resolved against the site's origin when it is root-relative, relative to a
\* path or protocol-relative.
C14_LinksResolved ==
  \A r \in SeriesRuns :
    LET f == frames[r]
    IN  /\ Len(f.chapters) = Len(f.links)
        /\ \A k \in 1..Len(f.links) :
             /\ f.chapters[k].title = trim(f.links[k].text)
             /\ f.chapters[k].url = Resolved(f.links[k].href)

\* The proxy index is a position of the proxy list.
C15_InRange == currentProxyIndex \in 0..(Len(CORS_PROXIES) - 1)

\* A step that changes the proxy index moves it to the next position, from the
\* last position to the first.
C15_Step ==
  currentProxyIndex' # currentProxyIndex =>
    currentProxyIndex' = IF currentProxyIndex = Len(CORS_PROXIES) - 1 THEN 0
                         ELSE currentProxyIndex + 1

\* C15: in every state, whatever advances, fetches and runs (ended well or
\* not) came before, the proxy index is a valid position of the proxy list,
\* and an advance from the last position leads to the first.
C15_IndexInRangeAndWraps == []C15_InRange /\ [][C15_Step]_vars

\* A fetch that started on the last proxy has failed once and advanced: the
\* index is back at the first proxy.
C15_Witness ==
  \E r \in Slots :
    /\ frames[r].hpc \in {"discover", "extract"}
    /\ frames[r].fpc = "backoff"
    /\ frames[r].startIndex = Len(CORS_PROXIES) - 1
    /\ frames[r].advances = 1
    /\ currentProxyIndex = 0

\* The steps of a fetchWithRetry call in frame r, by what they do to it.
C16_Step ==
  \A r \in Slots :
    LET f == frames[r]
        g == frames'[r]
        suspended == {"awaitFetch", "awaitText"}
    IN  f.hpc = "direct" =>
          \* an attempt fails, whatever failed it
          /\ (f.fpc \in suspended /\ g.fpc \notin suspended /\ g.hpc # "returned") =>
               /\ g.lastError.msg \in {"Failed to fetch", "AbortError", "HTTP",
                                       "Response too short or empty", "body read failed"}
               /\ g.issued = f.issued
               /\ net' = {}
               /\ IF f.issued < f.maxRetries
                  THEN /\ g.hpc = "direct"
                       /\ g.fpc = "backoff"
                       /\ g.advances = f.advances + 1
                       /\ currentProxyIndex' = (currentProxyIndex + 1) % 3
                  ELSE /\ g.hpc = "threw"
                       /\ g.advances = f.advances
                       /\ currentProxyIndex' = currentProxyIndex
          \* the wait ends: the next attempt, on the proxy the advance chose
          /\ (f.fpc = "backoff" /\ g # f) =>
               /\ g.fpc = "awaitFetch"
               /\ g.issued = f.issued + 1
               /\ g.advances = f.advances
               /\ currentProxyIndex' = currentProxyIndex
          \* no attempt is issued and no wait begun in any other way
          /\ g.issued # f.issued => f.fpc = "backoff"
          /\ g.advances # f.advances => (f.fpc \in suspended /\ g.fpc = "backoff")
          /\ g.fpc = "backoff" => (f.fpc = "backoff" \/ g.advances = f.advances + 1)

\* C16: inside one fetchWithRetry call a failed attempt that has attempts
\* left (whatever made it fail) is followed by one advance of the proxy index
\* and then one backoff wait, the next attempt is issued only by the end of
\* that wait, and the failure of the last attempt is followed by the throw with
\* neither an advance nor a wait.
C16_AdvanceThenBackoff == [][C16_Step]_vars

\* The second attempt of a call has been aborted by its timer; the call has
\* advanced twice and is in its second backoff wait.
C16_Witness ==
  \E r \in Slots :
    /\ frames[r].hpc = "direct"
    /\ frames[r].fpc = "backoff"
    /\ frames[r].issued = 2
    /\ frames[r].advances = 2
    /\ frames[r].lastError.msg = "AbortError"

\* The requests a run has issued are at most 3 while it discovers, and at most
\* 3 * (N + 1) once it has discovered N chapters.
C17_Bound ==
  \A r \in InFlight :
    LET f == frames[r]
    IN  f.audit =>
          /\ f.hpc = "discover" => f.requests <= 3
          /\ f.hpc # "discover" => f.requests <= 3 * (Len(f.chapters) + 1)

\* The run is over: success or error shown, the button enabled.
C17_Done ==
  /\ InFlight = {}
  /\ net = {}
  /\ ~disabled
  /\ statusDiv.className \in {"success", "error"}

\* C17: a run that has passed the validation issues at most 3 * (N + 1)
\* requests, N the chapters it discovers, and, every await of it ending, it
\* ends: a success or an error status is shown and the button is enabled.
C17_RunTerminates == []C17_Bound /\ <>C17_Done

\* A run over three chapters has issued its twelfth request.
C17_Witness ==
  \E r \in InFlight :
    /\ frames[r].audit
    /\ Len(frames[r].chapters) = 3
    /\ frames[r].requests = 12
    /\ net # {}

C18_Step ==
  \* the index changes only when an attempt with attempts left fails
  /\ currentProxyIndex' # currentProxyIndex =>
       \E r \in Slots :
         /\ frames[r].fpc \in {"awaitFetch", "awaitText"}
         /\ frames[r].issued < frames[r].maxRetries
         /\ frames'[r].fpc = "backoff"
         /\ frames'[r].lastError # NoError
  /\ \A r \in Slots :
       LET f == frames[r]
           g == frames'[r]
       IN  \* a call whose first attempt does not fail ends on the index it began on
           /\ (f.fpc \in {"awaitFetch", "awaitText"} /\ f.issued = 1 /\ g.fpc # "backoff") =>
                /\ currentProxyIndex = f.startIndex
                /\ currentProxyIndex' = f.startIndex
           \* a call begins: its first request goes to the proxy of the index as
           \* the step found it
           /\ (g.fpc = "awaitFetch" /\ g.issued = 1 /\ f.fpc # "awaitFetch") =>
                /\ currentProxyIndex' = currentProxyIndex
                /\ g.startIndex = currentProxyIndex
                /\ \E q \in net' : q.id = g.req /\ q.proxy = CORS_PROXIES[currentProxyIndex + 1]

\* C18: only the failure of an attempt that has attempts left changes the
\* proxy index: a call that succeeds on its first attempt leaves it as it was,
\* no step of validation, discovery, extraction, assembly, run start or run
\* end changes it, and the first request of every call, in the same run or in
\* a later one, goes to the proxy the index was left on.
C18_OnlyFailedAttemptsMoveIndex == [][C18_Step]_vars

\* A run begins on the third proxy, where an earlier run left the index.
C18_Witness ==
  \E r \in Slots :
    /\ frames[r].hpc = "discover"
    /\ frames[r].issued = 1
    /\ frames[r].startIndex = 2
    /\ \E q \in net : q.id = frames[r].req /\ q.proxy = "https://cors-anywhere.herokuapp.com/"

C19_Step ==
  \* a timer goes when it fires or when its own attempt's response arrives; a
  \* timer that fires after its request was settled changes nothing else
  /\ \A t \in timers \ timers' :
       IF \A q \in net : q.id # t
       THEN UNCHANGED <<currentProxyIndex, disabled, statusDiv, net, saved, frames>>
       ELSE \E q \in net :
              /\ q.id = t
              /\ q.phase = "fetch"
              /\ q \notin net'
              /\ \A o \in net : o.id # t => o \in net'
  /\ \A r \in Slots :
       LET f == frames[r]
           g == frames'[r]
       IN  (f.fpc = "awaitFetch" /\ g.fpc = "backoff") =>
             \* a network error leaves the timer armed, a response clears it
             /\ g.lastError.msg = "Failed to fetch" => f.req \in timers'
             /\ g.lastError.msg = "HTTP" => f.req \notin timers'
  \* the controller of a new attempt is none whose timer is armed
  /\ \A q \in net' \ net : q.phase = "fetch" => q.id \notin timers

\* C19: the abort timer of an attempt is cleared only when the response of
\* that attempt arrives; after a network error it stays armed, through later
\* attempts and fetches and past the end of the run, and when it fires then
\* it aborts no request of another attempt and changes nothing of the run.
C19_LateTimerIsHarmless == [][C19_Step]_vars

\* A run has ended in success with the timer of a failed attempt still armed.
C19_Witness ==
  /\ InFlight = {}
  /\ StaleTimers # {}
  /\ statusDiv.className = "success"
  /\ saved # <<>>

\* No run shows the "No chapters found" error, and the chapter list a run
\* works on has a first chapter.
C20_State ==
  /\ statusDiv.err.msg # "No chapters found"
  /\ \A r \in Slots :
       frames[r].hpc \in {"extract", "delay", "generate"} =>
         /\ Len(frames[r].chapters) >= 1
         /\ frames[r].links # <<>> => Len(frames[r].chapters) = Len(frames[r].links)
         /\ frames[r].links = <<>> =>
              (Len(frames[r].chapters) = 1 /\ frames[r].chapters[1].url = frames[r].url)
         /\ frames[r].hpc = "generate" => Len(frames[r].chapterContents) >= 1

\* A discovery ends in a chapter list unless the retrieval itself has failed.
C20_Step ==
  \A r \in Slots :
    (frames[r].hpc = "discover" /\ frames'[r].hpc # "discover") =>
      \/ frames'[r].hpc = "extract" /\ Len(frames'[r].chapters) >= 1
      \/ /\ frames'[r].hpc = "idle"
         /\ statusDiv'.err.msg = "Failed to fetch after attempts"

\* C20: fetchChapters returns a non-empty list for every document it has
\* retrieved, N references for N >= 1 series links and otherwise one reference
\* with the input URL: a discovery fails only when its retrieval fails, no run
\* raises "No chapters found", and the first chapter, whose title names the
\* project, is always there.
C20_DiscoveryNeverEmpty == []C20_State /\ [][C20_Step]_vars

====
